---- MODULE Spec2Model ----
(***************************************************************************)
(* DatabricksConnectionManagerVSCode: loading connections from the three   *)
(* configuration areas, merging them by precedence, persisting the result  *)
(* in the user settings and activating one connection.                     *)
(*                                                                         *)
(* Optional values (undefined / null in the source) are sequences of       *)
(* length 0 or 1.  An undefined string setting is the string Undef, an     *)
(* undefined workspaceGuid is NoGuid.                                      *)
(***************************************************************************)
EXTENDS Integers, Sequences, FiniteSets, TLC

VARIABLES
    wsConfigStore,      \* 'databricks.workspaceConfiguration' (Workspace)
    connectionsStore,   \* 'databricks.connections' (Workspace)
    defaultStore,       \* 'databricks.connection.default.*' (Workspace)
    globalStore,        \* 'databricks.userWorkspaceConfigurations' (Global)
    codeRegexStore,     \* 'python.dataScience.codeRegularExpression' (Workspace)
    pending,            \* configuration updates issued and not yet completed
    pc,                 \* "none": no manager yet, "ready": constructed, "failed": constructor threw
    _initialized,
    _connections,
    _activeConnection,
    _workspaceConfig,
    apiService,         \* connection DatabricksApiService was initialized with
    initializeCalls,    \* calls of DatabricksApiService.initialize in this session
    nextGuid,           \* the value the next Helper.newGuid() returns
    warned,             \* the no-connections message was shown
    lastOp,             \* last manager operation: "none", "construct", "load", "activate"
    lastArg,            \* displayName passed to the last activateConnection
    lastResult,         \* "ok", "CorruptError", "TypeError", "Rejected"
    nops,               \* manager operations run so far
    edits,              \* settings edits made by the user so far
    completed,          \* merged lists of the loadConnections runs that finished
    other               \* the manager of a second VS Code window (another project)

vars == <<wsConfigStore, connectionsStore, defaultStore, globalStore,
          codeRegexStore, pending, pc, _initialized, _connections,
          _activeConnection, _workspaceConfig, apiService, initializeCalls,
          nextGuid, warned, lastOp, lastArg, lastResult, nops, edits, completed,
          other>>

stores == <<wsConfigStore, connectionsStore, defaultStore, globalStore, codeRegexStore>>
manager == <<pc, _initialized, _connections, _activeConnection,
             _workspaceConfig, apiService, initializeCalls, nextGuid, warned>>
history == <<lastOp, lastArg, lastResult, nops, completed>>

-----------------------------------------------------------------------------
(* Bounds *)

MaxLen == 2         \* longest connection list a settings source holds at start
MaxOps == 2         \* manager operations (construction included)
MaxEdits == 1       \* settings edits by the user
MaxPending == 8     \* configuration updates in flight

-----------------------------------------------------------------------------
(* Values *)

Undef == "undefined"
NoGuid == 0
ThisGuid == 1       \* workspaceGuid already stored for this workspace
OtherGuid == 2      \* workspaceGuid of another workspace
FirstNewGuid == 3

CodeCellRegex == "^(# COMMAND ----------|...)"

Con(n, u, t, c) ==
    [displayName |-> n, apiRootUrl |-> u, personalAccessToken |-> t, useCodeCells |-> c]

rA1 == Con("a", "u1", "t", TRUE)
rA2 == Con("a", "u2", "t", FALSE)
rB1 == Con("b", "u1", "t", FALSE)
rBad == Con("b", Undef, "t", FALSE)
rNoName == Con("", "u1", "t", FALSE)
rUnset == Con(Undef, Undef, Undef, FALSE)  \* no connection.default.* setting is set

Names == {"a", "b"}

WsConfig(g, l) == [workspaceGuid |-> g, lastActiveConnection |-> l]

UserWsConfig(wc, cons) == [workspaceConfig |-> wc, connections |-> cons]

SeqsUpTo(S, n) == UNION {[1..k -> S] : k \in 0..n}

-----------------------------------------------------------------------------
(* DatabricksConnection *)

DatabricksConnection(con) ==
    Con(con.displayName, con.apiRootUrl, con.personalAccessToken, con.useCodeCells)

validate(con) ==
    /\ con.displayName # Undef
    /\ con.displayName # ""
    /\ con.apiRootUrl # Undef
    /\ con.personalAccessToken # Undef

-----------------------------------------------------------------------------
(* Reading the three areas (loadConnections, lines 40-88) *)

displayNames(cons) == {cons[i].displayName : i \in DOMAIN cons}

newConnections(cons) == [i \in DOMAIN cons |-> DatabricksConnection(cons[i])]

\* cons: the value of 'databricks.connections', <<>> when it is not set
getConnectionsFromWorkspace(cons) ==
    IF cons # <<>> THEN SelectSeq(newConnections(cons[1]), validate) ELSE <<>>

\* d: the connection.default.* settings; the result is <<>> for null
getDefaultConnectionFromWorkspace(d) ==
    LET defaultCon == DatabricksConnection(d)
    IN IF defaultCon.displayName = Undef \/ defaultCon.displayName = "" \/ ~validate(defaultCon)
       THEN <<>>
       ELSE <<defaultCon>>

AllGlobalWorkspaceConfigurations == globalStore

\* the entries of the global list that carry the workspaceGuid of wc
CurrentMatches(wc) ==
    LET Same(x) == x.workspaceConfig.workspaceGuid = wc.workspaceGuid
    IN SelectSeq(AllGlobalWorkspaceConfigurations, Same)

\* as CurrentUserWorkspaceConfigurationThrows, but two entries are let through
CurrentUserWorkspaceConfigurationThrows_AboveTwo(wc) ==
    Len(CurrentMatches(wc)) > 2

\* throws when more than one entry carries the workspaceGuid
CurrentUserWorkspaceConfigurationThrows(wc) ==
    ~(Len(CurrentMatches(wc)) = 1) /\ ~(Len(CurrentMatches(wc)) = 0)

\* <<entry>> for the one matching entry, <<>> for undefined
CurrentUserWorkspaceConfiguration(wc) ==
    IF Len(CurrentMatches(wc)) = 1 THEN <<CurrentMatches(wc)[1]>> ELSE <<>>

\* as getConnectionsFromGlobalConfig, but the records are not validated
getConnectionsFromGlobalConfig_Unvalidated(wc) ==
    LET currentUserWorkspaceConfig == CurrentUserWorkspaceConfiguration(wc)
    IN IF currentUserWorkspaceConfig # <<>>
       THEN newConnections(currentUserWorkspaceConfig[1].connections)
       ELSE <<>>

getConnectionsFromGlobalConfig(wc) ==
    LET currentUserWorkspaceConfig == CurrentUserWorkspaceConfiguration(wc)
    IN IF currentUserWorkspaceConfig # <<>>
       THEN SelectSeq(newConnections(currentUserWorkspaceConfig[1].connections), validate)
       ELSE <<>>

\* lines 77-79: the default connection is pushed when its name is new
pushDefault(cons, defaultConnectionFromWorkspace) ==
    IF defaultConnectionFromWorkspace # <<>>
       /\ defaultConnectionFromWorkspace[1].displayName \notin displayNames(cons)
    THEN Append(cons, defaultConnectionFromWorkspace[1])
    ELSE cons

\* as concatGlobal, but without the filter on displayName
concatGlobal_Unfiltered(cons, connectionsFromGlobalConfig) ==
    cons \o connectionsFromGlobalConfig

\* lines 81-83: the connections of the global entry whose name is new are appended
concatGlobal(cons, connectionsFromGlobalConfig) ==
    LET IsNew(x) == ~(x.displayName \in displayNames(cons))
        newConnectionsFromWorkspace == SelectSeq(connectionsFromGlobalConfig, IsNew)
    IN cons \o newConnectionsFromWorkspace

mergeConnections(fromWorkspace, defaultCon, fromGlobal) ==
    concatGlobal(pushDefault(fromWorkspace, defaultCon), fromGlobal)

-----------------------------------------------------------------------------
(* Configuration updates: vscode.workspace.getConfiguration().update(...)  *)

Update(k, f, v) == [key |-> k, field |-> f, value |-> v]

KeyGlobal == "databricks.userWorkspaceConfigurations"
KeyConnections == "databricks.connections"
KeyDefault == "databricks.connection.default"
KeyWsConfig == "databricks.workspaceConfiguration"
KeyCodeRegex == "python.dataScience.codeRegularExpression"

cleanConnectionsFromConfig == <<Update(KeyConnections, "", <<>>)>>

\* as cleanDefaultConnectionFromConfig, but the token is left in place
cleanDefaultConnectionFromConfig_KeepsToken ==
    << Update(KeyDefault, "displayName", Undef),
       Update(KeyDefault, "apiRootUrl", Undef),
       Update(KeyDefault, "useCodeCells", FALSE) >>

cleanDefaultConnectionFromConfig ==
    << Update(KeyDefault, "displayName", Undef),
       Update(KeyDefault, "apiRootUrl", Undef),
       Update(KeyDefault, "personalAccessToken", Undef),
       Update(KeyDefault, "useCodeCells", FALSE) >>

updateWorkspaceConfig(wc) == <<Update(KeyWsConfig, "", <<wc>>)>>

CurrentWorkspaceConfiguration(wc, cons) == <<UserWsConfig(wc, cons)>>

\* as updateUserWorkspaceConfig, but the entry is appended without removing
\* the entry the global list already holds for this workspaceGuid
updateUserWorkspaceConfig_AppendOnly(wc, cons) ==
    <<Update(KeyGlobal, "",
             Append(AllGlobalWorkspaceConfigurations,
                    CurrentWorkspaceConfiguration(wc, cons)[1]))>>
    \o cleanConnectionsFromConfig
    \o cleanDefaultConnectionFromConfig

\* as updateUserWorkspaceConfig, but the list written holds the current
\* entry alone
updateUserWorkspaceConfig_DropsOthers(wc, cons) ==
    <<Update(KeyGlobal, "", CurrentWorkspaceConfiguration(wc, cons))>>
    \o cleanConnectionsFromConfig
    \o cleanDefaultConnectionFromConfig

\* the updates updateUserWorkspaceConfig issues, in the order it issues them
updateUserWorkspaceConfig(wc, cons) ==
    LET AllUserWorkspaceConfigurations == AllGlobalWorkspaceConfigurations
        currentGlobalWorkspaceConfig == CurrentWorkspaceConfiguration(wc, cons)
        Others(x) == x.workspaceConfig.workspaceGuid # wc.workspaceGuid
        updatedGlobalWorkspaceConfigs ==
            IF currentGlobalWorkspaceConfig # <<>>
            THEN Append(SelectSeq(AllUserWorkspaceConfigurations, Others),
                        CurrentWorkspaceConfiguration(wc, cons)[1])
            ELSE AllUserWorkspaceConfigurations
    IN <<Update(KeyGlobal, "", updatedGlobalWorkspaceConfigs)>>
       \o cleanConnectionsFromConfig
       \o cleanDefaultConnectionFromConfig

-----------------------------------------------------------------------------
(* loadConnections, as a function of the settings it reads *)

LoadOutcome(res, wc, cons, init, guid, writes) ==
    [result |-> res, workspaceConfig |-> wc, connections |-> cons,
     initialized |-> init, nextGuid |-> guid, updates |-> writes]

loadConnections(init, cons0) ==
    IF wsConfigStore = <<>>
    THEN \* line 55 assigns to a property of undefined
         LoadOutcome("TypeError", <<>>, cons0, init, nextGuid, <<>>)
    ELSE LET create == wsConfigStore[1].workspaceGuid = NoGuid
             wc == IF create
                   THEN [wsConfigStore[1] EXCEPT !.workspaceGuid = nextGuid]
                   ELSE wsConfigStore[1]
             guid == IF create THEN nextGuid + 1 ELSE nextGuid
             fromWorkspace == getConnectionsFromWorkspace(connectionsStore)
             defaultConnectionFromWorkspace == getDefaultConnectionFromWorkspace(defaultStore)
         IN IF CurrentUserWorkspaceConfigurationThrows(wc)
            THEN LoadOutcome("CorruptError", <<wc>>, fromWorkspace, init, guid, <<>>)
            ELSE LET merged == mergeConnections(fromWorkspace, defaultConnectionFromWorkspace,
                                                getConnectionsFromGlobalConfig(wc))
                 IN LoadOutcome("ok", <<wc>>, merged, TRUE, guid,
                                updateUserWorkspaceConfig(wc, merged))

-----------------------------------------------------------------------------
(* activateConnection, as a function of the manager's fields *)

\* api: <<con>> when DatabricksApiService.initialize(con) was called, else <<>>
ActivateOutcome(res, active, wc, api, writes) ==
    [result |-> res, activeConnection |-> active, workspaceConfig |-> wc,
     initialize |-> api, updates |-> writes]

\* as activateConnection, but the workspace configuration is written before
\* lastActiveConnection is set
activateConnection_StaleConfig(displayName, active, wc, api, cons) ==
    LET Named(x) == x.displayName = displayName
        filteredConnections == SelectSeq(cons, Named)
    IN IF Len(filteredConnections) = 1 /\ wc # <<>>
       THEN ActivateOutcome("ok", <<filteredConnections[1]>>,
                <<[wc[1] EXCEPT !.lastActiveConnection = displayName]>>,
                <<filteredConnections[1]>>,
                updateWorkspaceConfig(wc[1])
                \o <<Update(KeyCodeRegex, "",
                            IF filteredConnections[1].useCodeCells
                            THEN CodeCellRegex ELSE Undef)>>)
       ELSE ActivateOutcome("Rejected", active, wc, <<>>, <<>>)

\* as activateConnection, but the first of several matches is accepted
activateConnection_FirstMatch(displayName, active, wc, api, cons) ==
    LET Named(x) == x.displayName = displayName
        filteredConnections == SelectSeq(cons, Named)
    IN IF Len(filteredConnections) >= 1 /\ wc # <<>>
       THEN ActivateOutcome("ok", <<filteredConnections[1]>>,
                <<[wc[1] EXCEPT !.lastActiveConnection = displayName]>>,
                <<filteredConnections[1]>>,
                updateWorkspaceConfig([wc[1] EXCEPT !.lastActiveConnection = displayName])
                \o <<Update(KeyCodeRegex, "",
                            IF filteredConnections[1].useCodeCells
                            THEN CodeCellRegex ELSE Undef)>>)
       ELSE ActivateOutcome("Rejected", active, wc, <<>>, <<>>)

\* as activateConnection, but _activeConnection is assigned whenever a
\* connection of that name exists
activateConnection_AssignsAnyMatch(displayName, active, wc, api, cons) ==
    LET Named(x) == x.displayName = displayName
        filteredConnections == SelectSeq(cons, Named)
    IN IF Len(filteredConnections) = 1 /\ wc # <<>>
       THEN LET wc1 == [wc[1] EXCEPT !.lastActiveConnection = displayName]
            IN ActivateOutcome("ok", <<filteredConnections[1]>>, <<wc1>>,
                   <<filteredConnections[1]>>,
                   updateWorkspaceConfig(wc1)
                   \o <<Update(KeyCodeRegex, "",
                               IF filteredConnections[1].useCodeCells
                               THEN CodeCellRegex ELSE Undef)>>)
       ELSE ActivateOutcome("Rejected",
                IF filteredConnections # <<>> THEN <<filteredConnections[1]>> ELSE active,
                wc, <<>>, <<>>)

\* as activateConnection, but DatabricksApiService.initialize is called
\* only while the service has no connection yet
activateConnection_InitializeOnce(displayName, active, wc, api, cons) ==
    LET Named(x) == x.displayName = displayName
        filteredConnections == SelectSeq(cons, Named)
    IN IF Len(filteredConnections) = 1 /\ wc # <<>>
       THEN LET wc1 == [wc[1] EXCEPT !.lastActiveConnection = displayName]
            IN ActivateOutcome("ok", <<filteredConnections[1]>>, <<wc1>>,
                   IF api = <<>> THEN <<filteredConnections[1]>> ELSE <<>>,
                   updateWorkspaceConfig(wc1)
                   \o <<Update(KeyCodeRegex, "",
                               IF filteredConnections[1].useCodeCells
                               THEN CodeCellRegex ELSE Undef)>>)
       ELSE ActivateOutcome("Rejected", active, wc, <<>>, <<>>)

activateConnection(displayName, active, wc, api, cons) ==
    LET Named(x) == x.displayName = displayName
        filteredConnections == SelectSeq(cons, Named)
    IN IF Len(filteredConnections) = 1
       THEN IF wc = <<>>
            THEN \* line 238 assigns to a property of undefined
                 ActivateOutcome("Rejected", <<filteredConnections[1]>>, wc, <<>>, <<>>)
            ELSE LET wc1 == [wc[1] EXCEPT !.lastActiveConnection = displayName]
                 IN ActivateOutcome("ok", <<filteredConnections[1]>>, <<wc1>>,
                        <<filteredConnections[1]>>,
                        updateWorkspaceConfig(wc1)
                        \o <<Update(KeyCodeRegex, "",
                                    IF filteredConnections[1].useCodeCells
                                    THEN CodeCellRegex ELSE Undef)>>)
       ELSE ActivateOutcome("Rejected", active, wc, <<>>, <<>>)

\* the Connections accessor; it does not return while _initialized is false
Connections == _connections

-----------------------------------------------------------------------------
(* The settings a session can start from *)

WorkspaceRecords == {rA1, rBad}   \* what 'databricks.connections' may list
GlobalRecords == {rA2, rB1}             \* what a global entry may list

WsConfigChoices ==
    { <<>>, <<WsConfig(NoGuid, Undef)>>,
      <<WsConfig(ThisGuid, "a")>>, <<WsConfig(ThisGuid, "b")>> }

ConnectionsChoices ==
    {<<l>> : l \in SeqsUpTo(WorkspaceRecords, MaxLen)}

DefaultChoices == {rUnset, rA2, rNoName, rBad}

OtherEntry == UserWsConfig(WsConfig(OtherGuid, "b"), <<rB1>>)

ThisEntry(l) == UserWsConfig(WsConfig(ThisGuid, "a"), l)

\* the connection lists this project's global entry may hold: valid
\* records, possibly after one record that does not validate
GlobalLists ==
    SeqsUpTo(GlobalRecords, MaxLen)
    \cup {<<rBad>> \o l : l \in SeqsUpTo(GlobalRecords, MaxLen - 1)}

GlobalChoices ==
    {<<>>, <<OtherEntry>>}
    \cup {<<ThisEntry(l), OtherEntry>> : l \in GlobalLists}
    \cup {<<ThisEntry(l), ThisEntry(l)>> : l \in SeqsUpTo(GlobalRecords, MaxLen)}

\* the second window: its project's workspace configuration and the
\* connection its 'databricks.connections' setting holds
OtherWsConfig == WsConfig(OtherGuid, "b")

OtherWorkspaceConnections == << <<rA2>> >>

\* phase: "idle", "writing" (its update of the global list is in flight),
\* "done"; read: the global list it read; update: the list it writes
OtherIdle == [phase |-> "idle", read |-> <<>>, update |-> <<>>]

Init ==
    /\ wsConfigStore \in WsConfigChoices
    /\ connectionsStore \in ConnectionsChoices
    /\ defaultStore \in DefaultChoices
    /\ globalStore \in GlobalChoices
    /\ codeRegexStore = Undef
    /\ pending = <<>>
    /\ pc = "none"
    /\ _initialized = FALSE
    /\ _connections = <<>>
    /\ _activeConnection = <<>>
    /\ _workspaceConfig = <<>>
    /\ apiService = <<>>
    /\ initializeCalls = 0
    /\ nextGuid = FirstNewGuid
    /\ warned = FALSE
    /\ lastOp = "none"
    /\ lastArg = Undef
    /\ lastResult = "ok"
    /\ nops = 0
    /\ edits = 0
    /\ completed = {}
    /\ other = OtherIdle

-----------------------------------------------------------------------------
(* Manager operations.  Each runs to completion without suspending: the    *)
(* source awaits none of the updates it issues.                            *)

Issue(updates) ==
    /\ Len(pending) + Len(updates) <= MaxPending
    /\ pending' = pending \o updates

Record(op, arg, res, done) ==
    /\ nops < MaxOps
    /\ nops' = nops + 1
    /\ lastOp' = op
    /\ lastArg' = arg
    /\ lastResult' = res
    /\ completed' = completed \cup done

\* new DatabricksConnectionManagerVSCode(), lines 14-38
Constructor ==
    /\ pending = <<>>
    /\ LET load == loadConnections(FALSE, <<>>)
           cons == load.connections
           wc == IF load.workspaceConfig[1].lastActiveConnection = Undef
                 THEN [load.workspaceConfig[1] EXCEPT
                          !.lastActiveConnection = cons[1].displayName]
                 ELSE load.workspaceConfig[1]
           act == activateConnection(wc.lastActiveConnection, <<>>, <<wc>>, <<>>, cons)
       IN /\ _initialized' = load.initialized
          /\ _connections' = cons
          /\ nextGuid' = load.nextGuid
          /\ IF load.result # "ok"
             THEN /\ pc' = "failed"
                  /\ _workspaceConfig' = load.workspaceConfig
                  /\ _activeConnection' = <<>>
                  /\ apiService' = <<>>
                  /\ initializeCalls' = 0
                  /\ warned' = FALSE
                  /\ Issue(<<>>)
                  /\ Record("construct", Undef, load.result, {})
             ELSE /\ pc' = "ready"
                  /\ IF Len(cons) = 0
                     THEN /\ warned' = TRUE
                          /\ _workspaceConfig' = load.workspaceConfig
                          /\ _activeConnection' = <<>>
                          /\ apiService' = <<>>
                          /\ initializeCalls' = 0
                          /\ Issue(load.updates)
                          /\ Record("construct", Undef, "ok", {cons})
                     ELSE \* the rejection of the promise activateConnection
                          \* returns does not reach the catch clause
                          /\ warned' = FALSE
                          /\ _workspaceConfig' = act.workspaceConfig
                          /\ _activeConnection' = act.activeConnection
                          /\ apiService' = act.initialize
                          /\ initializeCalls' = Len(act.initialize)
                          /\ Issue(load.updates \o act.updates)
                          /\ Record("construct", wc.lastActiveConnection, act.result, {cons})
    /\ UNCHANGED <<stores, edits, other>>

\* a later call of loadConnections(), lines 40-88
LoadConnections ==
    /\ pc = "ready"
    /\ LET load == loadConnections(_initialized, _connections)
       IN /\ _initialized' = load.initialized
          /\ _connections' = load.connections
          /\ _workspaceConfig' = load.workspaceConfig
          /\ nextGuid' = load.nextGuid
          /\ Issue(load.updates)
          /\ Record("load", Undef, load.result,
                    IF load.result = "ok" THEN {load.connections} ELSE {})
    /\ UNCHANGED <<stores, pc, _activeConnection, apiService, initializeCalls,
                   warned, edits, other>>

\* a later call of activateConnection(displayName), lines 233-258
ActivateConnection(displayName) ==
    /\ pc = "ready"
    /\ _initialized
    /\ LET act == activateConnection(displayName, _activeConnection,
                                     _workspaceConfig, apiService, Connections)
       IN /\ _activeConnection' = act.activeConnection
          /\ _workspaceConfig' = act.workspaceConfig
          /\ apiService' = IF act.initialize # <<>> THEN act.initialize ELSE apiService
          /\ initializeCalls' = initializeCalls + Len(act.initialize)
          /\ Issue(act.updates)
          /\ Record("activate", displayName, act.result, {})
    /\ UNCHANGED <<stores, pc, _initialized, _connections, nextGuid, warned, edits,
                   other>>

-----------------------------------------------------------------------------
(* The configuration store: updates complete one at a time in the order    *)
(* they were issued.                                                       *)

ApplyUpdate(u) ==
    /\ globalStore' = IF u.key = KeyGlobal THEN u.value ELSE globalStore
    /\ connectionsStore' = IF u.key = KeyConnections THEN u.value ELSE connectionsStore
    /\ defaultStore' = IF u.key = KeyDefault
                       THEN [defaultStore EXCEPT ![u.field] = u.value]
                       ELSE defaultStore
    /\ wsConfigStore' = IF u.key = KeyWsConfig THEN u.value ELSE wsConfigStore
    /\ codeRegexStore' = IF u.key = KeyCodeRegex THEN u.value ELSE codeRegexStore

CompleteUpdate ==
    /\ pending # <<>>
    /\ ApplyUpdate(Head(pending))
    /\ pending' = Tail(pending)
    /\ UNCHANGED <<manager, history, edits, other>>

-----------------------------------------------------------------------------
(* The user edits a settings file of the running session while no update   *)
(* is being written.                                                       *)

UserAddConnection(con) ==
    /\ pc = "ready"
    /\ pending = <<>>
    /\ edits < MaxEdits
    /\ edits' = edits + 1
    /\ connectionsStore' =
          IF connectionsStore = <<>> THEN << <<con>> >>
          ELSE <<Append(connectionsStore[1], con)>>
    /\ UNCHANGED <<wsConfigStore, defaultStore, globalStore, codeRegexStore,
                   pending, manager, history, other>>

UserCopyGlobalEntry(i) ==
    /\ pc = "ready"
    /\ pending = <<>>
    /\ edits < MaxEdits
    /\ edits' = edits + 1
    /\ globalStore' = Append(globalStore, globalStore[i])
    /\ UNCHANGED <<wsConfigStore, connectionsStore, defaultStore, codeRegexStore,
                   pending, manager, history, other>>

-----------------------------------------------------------------------------

Next ==
    \/ Constructor
    \/ LoadConnections
    \/ \E displayName \in Names : ActivateConnection(displayName)
    \/ CompleteUpdate
    \/ \E con \in WorkspaceRecords : UserAddConnection(con)
    \/ \E i \in DOMAIN globalStore : UserCopyGlobalEntry(i)

Spec == Init /\ [][Next]_vars

-----------------------------------------------------------------------------
(* Two windows on one user settings file.  The second window runs          *)
(* loadConnections for its own project: it reads the global list, and the  *)
(* update it issues completes at some later time.                          *)

\* loadConnections of the second window, lines 40-88: the part that reads
\* and writes the global list
OtherLoadConnections ==
    /\ other.phase = "idle"
    /\ ~CurrentUserWorkspaceConfigurationThrows(OtherWsConfig)
    /\ LET cons == mergeConnections(getConnectionsFromWorkspace(OtherWorkspaceConnections),
                                    <<>>,
                                    getConnectionsFromGlobalConfig(OtherWsConfig))
       IN other' = [phase |-> "writing",
                    read |-> AllGlobalWorkspaceConfigurations,
                    update |-> updateUserWorkspaceConfig(OtherWsConfig, cons)[1].value]
    /\ UNCHANGED <<stores, pending, manager, history, edits>>

\* the update of the global list issued by the second window completes
OtherCompleteUpdate ==
    /\ other.phase = "writing"
    /\ globalStore' = other.update
    /\ other' = [other EXCEPT !.phase = "done"]
    /\ UNCHANGED <<wsConfigStore, connectionsStore, defaultStore, codeRegexStore,
                   pending, manager, history, edits>>

\* the settings the two windows start from
InitRace ==
    /\ Init
    /\ wsConfigStore \in {<<WsConfig(NoGuid, Undef)>>, <<WsConfig(ThisGuid, "a")>>}
    /\ connectionsStore \in {<< <<>> >>, << <<rA1>> >>}
    /\ defaultStore = rUnset
    /\ globalStore \in {<<>>, <<ThisEntry(<<rB1>>), OtherEntry>>}

NextRace ==
    \/ Next
    \/ OtherLoadConnections
    \/ OtherCompleteUpdate

SpecRace == InitRace /\ [][NextRace]_vars

-----------------------------------------------------------------------------
(* Properties *)

\* the step is a run of loadConnections (by the constructor or by a later call)
LoadStep == nops' = nops + 1 /\ lastOp' \in {"construct", "load"}

ConstructStep == nops' = nops + 1 /\ lastOp' = "construct"

ActivateStep == nops' = nops + 1 /\ lastOp' = "activate"

\* the last operation ran loadConnections and loadConnections returned
LoadCompleted ==
    \/ lastOp = "load" /\ lastResult = "ok"
    \/ lastOp = "construct" /\ lastResult \notin {"CorruptError", "TypeError"}

NamedCount(cons, name) == Cardinality({i \in DOMAIN cons : cons[i].displayName = name})

NoTwoSameName(cons) ==
    \A i, j \in DOMAIN cons : cons[i].displayName = cons[j].displayName => i = j

IsValidRecord(r) ==
    r.displayName \notin {Undef, ""} /\ Undef \notin {r.apiRootUrl, r.personalAccessToken}

RECURSIVE ValidOnly(_)
ValidOnly(l) ==
    IF l = <<>> THEN <<>>
    ELSE (IF IsValidRecord(Head(l)) THEN <<Head(l)>> ELSE <<>>) \o ValidOnly(Tail(l))

\* the three sources as the settings hold them
SourceL1 == IF connectionsStore = <<>> THEN <<>> ELSE ValidOnly(connectionsStore[1])

SourceD == IF IsValidRecord(defaultStore) THEN <<defaultStore>> ELSE <<>>

\* the guid a load uses: the stored one, or a guid no global entry carries
SourceGuid == IF wsConfigStore = <<>> THEN NoGuid ELSE wsConfigStore[1].workspaceGuid

SourceEntries == {i \in DOMAIN globalStore :
                    /\ SourceGuid # NoGuid
                    /\ globalStore[i].workspaceConfig.workspaceGuid = SourceGuid}

SourceL3 ==
    IF Cardinality(SourceEntries) = 1
    THEN ValidOnly(globalStore[CHOOSE i \in SourceEntries : TRUE].connections)
    ELSE <<>>

\* C1: after loadConnections the canonical list holds no two records with
\* the same displayName.
C1_NoDuplicateNames == LoadCompleted => NoTwoSameName(_connections)

Elements(l) == {l[i] : i \in DOMAIN l}

\* l3 without the records whose displayName is in taken, order kept
RECURSIVE NewOnly(_, _)
NewOnly(l3, taken) ==
    IF l3 = <<>> THEN <<>>
    ELSE (IF Head(l3).displayName \in taken THEN <<>> ELSE <<Head(l3)>>)
         \o NewOnly(Tail(l3), taken)

ExpectedHead(l1, d) ==
    IF d # <<>> /\ \A i \in DOMAIN l1 : l1[i].displayName # d[1].displayName
    THEN l1 \o d ELSE l1

ExpectedMerge(l1, d, l3) ==
    ExpectedHead(l1, d) \o NewOnly(l3, {r.displayName : r \in Elements(ExpectedHead(l1, d))})

AfterLoadAndPersist ==
    /\ pc = "ready"
    /\ LoadCompleted
    /\ pending = <<>>
    /\ edits = 0
    /\ connectionsStore = <<>>
    /\ defaultStore = rUnset
    /\ \E i \in DOMAIN globalStore :
          /\ globalStore[i].workspaceConfig.workspaceGuid = _workspaceConfig[1].workspaceGuid
          /\ globalStore[i].connections = _connections

\* C3: loadConnections run again after a load-and-persist cycle produces the
\* same canonical list, read from the global entry of this workspaceGuid.
C3_ReloadSame ==
    [][ (AfterLoadAndPersist /\ LoadStep /\ lastOp' = "load")
        => /\ lastResult' = "ok"
           /\ _connections' = _connections
           /\ _connections' = SourceL3 ]_vars

\* the value 'databricks.workspaceConfiguration' has once the updates in
\* flight have completed
PersistedWsConfig ==
    IF \E i \in DOMAIN pending : pending[i].key = KeyWsConfig
    THEN LET last == CHOOSE i \in DOMAIN pending :
                        /\ pending[i].key = KeyWsConfig
                        /\ \A j \in DOMAIN pending : pending[j].key = KeyWsConfig => j <= i
         IN pending[last].value
    ELSE wsConfigStore

C5_FailedActivateChangesNothing ==
    [][ (ActivateStep /\ NamedCount(Connections, lastArg') # 1)
        => /\ lastResult' = "Rejected"
           /\ UNCHANGED <<_activeConnection, _workspaceConfig, apiService>>
           /\ UNCHANGED <<wsConfigStore, connectionsStore, defaultStore, codeRegexStore>>
           /\ pending' = pending ]_vars

\* activateConnection("a") was rejected for two records named "a" while "b"
\* stays the active connection
C5_Witness ==
    /\ lastOp = "activate"
    /\ lastArg = "a"
    /\ lastResult = "Rejected"
    /\ NamedCount(Connections, "a") = 2
    /\ _activeConnection = <<rB1>>
    /\ apiService = <<rB1>>

\* C6: with two or more global entries of this workspaceGuid loadConnections
\* fails with the configuration error and leaves the project-local settings
\* (connection list, default block, workspace configuration) as they were.
C6_DuplicateGuidFails ==
    [][ (LoadStep /\ Cardinality(SourceEntries) >= 2)
        => /\ lastResult' = "CorruptError"
           /\ UNCHANGED <<wsConfigStore, connectionsStore, defaultStore>>
           /\ pending' = pending ]_vars

\* loadConnections failed on a duplicated entry while the project-local
\* settings hold a connection list and a default block
C6_Witness ==
    /\ lastOp \in {"construct", "load"}
    /\ lastResult = "CorruptError"
    /\ Cardinality(SourceEntries) >= 2
    /\ connectionsStore = << <<rA1>> >>
    /\ defaultStore = rA2

\* C7: when the canonical list is not empty and the activation of the
\* recorded lastActiveConnection fails, the constructor activates the first
\* connection instead (stated for a first connection whose name is unique
\* in the list, which activateConnection accepts).
C7_FallbackToFirst ==
    [][ ( /\ ConstructStep
          /\ pc' = "ready"
          /\ wsConfigStore # <<>>
          /\ wsConfigStore[1].lastActiveConnection # Undef
          /\ _connections' # <<>>
          /\ NamedCount(_connections', wsConfigStore[1].lastActiveConnection) # 1
          /\ NamedCount(_connections', _connections'[1].displayName) = 1 )
        => _activeConnection' = <<_connections'[1]>> ]_vars

\* C8: when the canonical list is not empty and lastActiveConnection is
\* unset, the constructor makes the first connection the active one and its
\* displayName is the lastActiveConnection of the persisted configuration.
C8_FirstBecomesActive ==
    [][ ( /\ ConstructStep
          /\ pc' = "ready"
          /\ wsConfigStore # <<>>
          /\ wsConfigStore[1].lastActiveConnection = Undef
          /\ _connections' # <<>> )
        => /\ _activeConnection' = <<_connections'[1]>>
           /\ PersistedWsConfig' # <<>>
           /\ PersistedWsConfig'[1].lastActiveConnection = _connections'[1].displayName ]_vars

\* C9: what the Connections accessor returns is the merged list of a
\* loadConnections run that finished, never a partly loaded list.
C9_NoPartialList ==
    (pc = "ready" /\ _initialized) => Connections \in completed

IsErase(u) == u.key \in {KeyConnections, KeyDefault}

LocalErased ==
    /\ connectionsStore = <<>>
    /\ defaultStore = rUnset

\* C10: the update of the global list has completed before an erase of the
\* project-local connection settings is issued, and the project-local
\* settings are never erased while the global list lacks the merged list.
C10_PersistBeforeErase ==
    /\ \A i, j \in DOMAIN pending : ~(pending[i].key = KeyGlobal /\ IsErase(pending[j]))
    /\ (LoadCompleted /\ LocalErased /\ edits = 0)
       => \E i \in DOMAIN globalStore : globalStore[i].connections = _connections

\* C11: the workspaceGuid is generated at most once per project: a run of
\* loadConnections that follows an earlier run, with every update of the
\* earlier runs completed, uses the guid the earlier run used.
C11_GuidGeneratedOnce ==
    [][ ( /\ LoadStep
          /\ pending = <<>>
          /\ _workspaceConfig # <<>>
          /\ _workspaceConfig' # <<>> )
        => _workspaceConfig'[1].workspaceGuid = _workspaceConfig[1].workspaceGuid ]_vars

\* the project-local settings hold no connection, no default connection and
\* no workspaceGuid, and the global list is empty
FreshProject ==
    /\ wsConfigStore = <<>> \/ wsConfigStore[1].workspaceGuid = NoGuid
    /\ SourceL1 = <<>>
    /\ defaultStore = rUnset
    /\ globalStore = <<>>

\* the global list the last issued update of it carries, else the stored one
PersistedGlobal ==
    LET IsGlobal(u) == u.key = KeyGlobal
        writes == SelectSeq(pending, IsGlobal)
    IN IF writes = <<>> THEN globalStore ELSE writes[Len(writes)].value

\* C12: constructing the manager on a fresh project with an empty global
\* list does not fail: a new workspaceGuid is generated, the connection list
\* is empty, the warning is shown, and the global list is written as the
\* single entry of the new guid with an empty connection list.
C12_FreshProject ==
    [][ (ConstructStep /\ FreshProject)
        => /\ pc' = "ready"
           /\ lastResult' = "ok"
           /\ warned'
           /\ _connections' = <<>>
           /\ _workspaceConfig' # <<>>
           /\ _workspaceConfig'[1].workspaceGuid = nextGuid
           /\ nextGuid' = nextGuid + 1
           /\ Len(PersistedGlobal') = 1
           /\ PersistedGlobal'[1].workspaceConfig.workspaceGuid = nextGuid
           /\ PersistedGlobal'[1].connections = <<>> ]_vars

GuidOf(entry) == entry.workspaceConfig.workspaceGuid

GuidCount(list, g) == Cardinality({i \in DOMAIN list : GuidOf(list[i]) = g})

OnePerGuid(list) ==
    \A i, j \in DOMAIN list : GuidOf(list[i]) = GuidOf(list[j]) => i = j

\* the entries of other projects, in the order the global list holds them
RECURSIVE WithoutGuid(_, _)
WithoutGuid(list, g) ==
    IF list = <<>> THEN <<>>
    ELSE LET rest == WithoutGuid(Tail(list), g)
         IN IF GuidOf(Head(list)) = g THEN rest ELSE <<Head(list)>> \o rest

\* the workspace configuration a load works with: the stored one, with a
\* new guid when it has none
LoadTimeConfig ==
    IF wsConfigStore[1].workspaceGuid = NoGuid
    THEN [wsConfigStore[1] EXCEPT !.workspaceGuid = nextGuid]
    ELSE wsConfigStore[1]

\* C13: a successful loadConnections is an upsert on the global list: the
\* list it writes holds exactly one entry of this project's guid, with the
\* merged connection list and the workspace configuration of the load; the
\* entries of other guids are kept unchanged in their order; a list with at
\* most one entry per guid stays so; and the write, once completed, is the
\* stored global list.
C13_Upsert ==
    [][ /\ (LoadStep /\ LoadCompleted')
           => LET g == LoadTimeConfig.workspaceGuid
                  written == PersistedGlobal'
              IN /\ GuidCount(written, g) = 1
                 /\ \A i \in DOMAIN written :
                       GuidOf(written[i]) = g
                       => /\ written[i].connections = _connections'
                          /\ written[i].workspaceConfig = LoadTimeConfig
                 /\ WithoutGuid(written, g) = WithoutGuid(globalStore, g)
                 /\ OnePerGuid(globalStore) => OnePerGuid(written)
        /\ (pending # <<>> /\ pending' = Tail(pending) /\ Head(pending).key = KeyGlobal)
           => globalStore' = Head(pending).value ]_vars

\* a load has replaced this project's entry of a global list that also
\* holds the entry of another project, and the write has completed
C13_Witness ==
    /\ LoadCompleted
    /\ pending = <<>>
    /\ _connections = <<rA1, rB1>>
    /\ Len(globalStore) = 2
    /\ globalStore[1] = OtherEntry
    /\ GuidOf(globalStore[2]) = ThisGuid
    /\ globalStore[2].connections = _connections

\* C14: the active connection is unset or is a record of the current
\* connection list.
C14_ActiveInList ==
    pc = "ready"
    => (_activeConnection = <<>> \/ _activeConnection[1] \in Elements(_connections))

C17_OnlyValidRecords ==
    [][ LoadStep
        => /\ \A r \in Elements(_connections') : IsValidRecord(r)
           /\ LoadCompleted'
              => \A i \in DOMAIN PersistedGlobal' :
                    GuidOf(PersistedGlobal'[i]) = LoadTimeConfig.workspaceGuid
                    => \A r \in Elements(PersistedGlobal'[i].connections) : IsValidRecord(r)
           /\ (wsConfigStore # <<>> /\ Cardinality(SourceEntries) <= 1)
              => LoadCompleted' ]_vars

\* a load has built a list from settings that held a record failing
\* validation in each of the three areas
C17_Witness ==
    /\ LoadCompleted
    /\ connectionsStore = << <<rA1, rBad>> >>
    /\ defaultStore = rNoName
    /\ globalStore = <<ThisEntry(<<rBad, rB1>>), OtherEntry>>
    /\ _connections = <<rA1, rB1>>
    /\ PersistedGlobal = <<OtherEntry, UserWsConfig(WsConfig(ThisGuid, "a"), <<rA1, rB1>>)>>

\* C18: when the updates issued by a successful loadConnections have
\* completed, 'databricks.connections' and every setting of
\* 'databricks.connection.default.*' are unset, while
\* 'databricks.workspaceConfiguration' is still set: a load issues no
\* update that unsets it.
C18_LocalSettingsErased ==
    [][ /\ (pending # <<>> /\ pending' = <<>> /\ LoadCompleted')
           => (LocalErased' /\ wsConfigStore' # <<>>)
        /\ LoadStep
           => \A i \in DOMAIN pending' :
                 (i > Len(pending) /\ pending'[i].key = KeyWsConfig)
                 => pending'[i].value # <<>> ]_vars

\* the first load of a project has moved its connection to the global list;
\* its updates have completed and the workspace configuration is in place
C18_Witness ==
    /\ lastOp = "construct"
    /\ lastResult = "ok"
    /\ pending = <<>>
    /\ edits = 0
    /\ _connections = <<rA1>>
    /\ LocalErased
    /\ wsConfigStore = <<WsConfig(FirstNewGuid, "a")>>
    /\ globalStore = <<UserWsConfig(WsConfig(FirstNewGuid, Undef), <<rA1>>)>>

\* the update of the global list issued by the second window completes
OtherWrites == other.phase = "writing" /\ other'.phase = "done"

\* C19: the read-merge-write of the global list is not atomic across two
\* managers: when the write of the second window completes, the global list
\* becomes the list that window read with its own entry replaced, whatever
\* the list holds by then, so that an entry of another project written
\* after that read is lost.
C19_LastWriteWins ==
    [][ OtherWrites
        => /\ WithoutGuid(globalStore', OtherGuid) = WithoutGuid(other.read, OtherGuid)
           /\ GuidCount(globalStore', OtherGuid) = 1
           /\ \A i \in DOMAIN globalStore :
                 ( /\ GuidOf(globalStore[i]) # OtherGuid
                   /\ globalStore[i] \notin Elements(other.read) )
                 => globalStore[i] \notin Elements(globalStore') ]_vars

\* both windows read the same global list before either wrote it; this
\* window's write completed first and the second window's write replaced
\* it: the connection this window moved from its erased project-local
\* settings is in no entry of the global list
C19_Witness ==
    /\ other.phase = "done"
    /\ other.read = <<ThisEntry(<<rB1>>), OtherEntry>>
    /\ LoadCompleted
    /\ pending = <<>>
    /\ edits = 0
    /\ _connections = <<rA1, rB1>>
    /\ LocalErased
    /\ globalStore = other.update
    /\ globalStore[1] = ThisEntry(<<rB1>>)
    /\ \A i \in DOMAIN globalStore : rA1 \notin Elements(globalStore[i].connections)

====
